---- MODULE Spec2Model ----
(***************************************************************************)
(* Account REST service (service/routes.py): the handlers of /health, /,   *)
(* /accounts and /accounts/<account_id>, over the Account table.           *)
(*                                                                         *)
(* One action per request handler.  A handler runs to completion before    *)
(* the next request is served (one synchronous request per call).          *)
(* service/models.py and service/common/error_handlers.py are not part of  *)
(* the available sources; Account's methods and the error handlers are     *)
(* modelled from the specification and from what routes.py and the tests   *)
(* rely on.                                                                *)
(***************************************************************************)
EXTENDS Integers, Sequences, FiniteSets, TLC

\* The serial primary key hands out at most this many identifiers.
MaxCreates == 2

(***************************************************************************)
(* HTTP status codes (service.common.status).                              *)
(***************************************************************************)
HTTP_200_OK == 200
HTTP_201_CREATED == 201
HTTP_204_NO_CONTENT == 204
HTTP_400_BAD_REQUEST == 400
HTTP_404_NOT_FOUND == 404
HTTP_415_UNSUPPORTED_MEDIA_TYPE == 415
HTTP_500_INTERNAL_SERVER_ERROR == 500

(***************************************************************************)
(* JSON values.  A string is a TLA+ string, except a date string, which is *)
(* the sequence of its characters so that parsing and formatting are       *)
(* computed.                                                               *)
(***************************************************************************)
Str(s) == [kind |-> "string", val |-> s]
Num(n) == [kind |-> "number", val |-> n]
Null == [kind |-> "null", val |-> ""]
Obj(f) == [kind |-> "object", val |-> f]
Arr(s) == [kind |-> "array", val |-> s]
EmptyDict == [k \in {} |-> Null]

None == Null

IsStr(v) == v.kind = "string"

(***************************************************************************)
(* Dates: datetime.date, date.fromisoformat and date.isoformat.            *)
(***************************************************************************)
Digits == <<"0", "1", "2", "3", "4", "5", "6", "7", "8", "9">>

IsDigit(c) == \E i \in 1..Len(Digits) : Digits[i] = c

DigitVal(c) == (CHOOSE i \in 1..Len(Digits) : Digits[i] = c) - 1

DigitChar(d) == Digits[d + 1]

IsLeap(y) == (y % 4 = 0) /\ ((y % 100 # 0) \/ (y % 400 = 0))

DaysInMonth(y, m) ==
    IF m = 2 THEN (IF IsLeap(y) THEN 29 ELSE 28)
    ELSE IF m \in {4, 6, 9, 11} THEN 30 ELSE 31

Today == [year |-> 2026, month |-> 11, day |-> 3]

\* int(s[lo..hi]) of a run of digits
ParseInt(s, lo, hi) ==
    LET RECURSIVE acc(_)
        acc(i) == IF i < lo THEN 0 ELSE acc(i - 1) * 10 + DigitVal(s[i])
    IN  acc(hi)

\* date.fromisoformat: YYYY-MM-DD only; anything else raises
FromIsoFormatOk(s) ==
    /\ Len(s) = 10
    /\ s[5] = "-"
    /\ s[8] = "-"
    /\ \A i \in {1, 2, 3, 4, 6, 7, 9, 10} : IsDigit(s[i])
    /\ LET y == ParseInt(s, 1, 4)
           m == ParseInt(s, 6, 7)
           d == ParseInt(s, 9, 10)
       IN  /\ y >= 1
           /\ m \in 1..12
           /\ d \in 1..DaysInMonth(y, m)

FromIsoFormat(s) ==
    [year |-> ParseInt(s, 1, 4), month |-> ParseInt(s, 6, 7), day |-> ParseInt(s, 9, 10)]

\* date.isoformat: "%04d-%02d-%02d"
IsoFormat(d) ==
    << DigitChar((d.year \div 1000) % 10), DigitChar((d.year \div 100) % 10),
       DigitChar((d.year \div 10) % 10), DigitChar(d.year % 10), "-",
       DigitChar((d.month \div 10) % 10), DigitChar(d.month % 10), "-",
       DigitChar((d.day \div 10) % 10), DigitChar(d.day % 10) >>

(***************************************************************************)
(* State.                                                                  *)
(*   table    : the rows of the Account table, in insertion order          *)
(*   next_id  : the next value of the table's serial primary key           *)
(*   request  : the request being answered                                 *)
(*   response : the response the handler returned for it                   *)
(*   created, deleted : history: how many rows were ever inserted, and the *)
(*              identifiers of the rows removed so far                     *)
(***************************************************************************)
VARIABLES table, next_id, request, response, created, deleted

vars == <<table, next_id, request, response, created, deleted>>

(***************************************************************************)
(* Account (service.models): the object and its persistence methods.       *)
(***************************************************************************)
Required == {"name", "email", "address"}

\* Account(): a fresh object, nothing set yet
Account == [id |-> 0, name |-> Null, email |-> Null, address |-> Null,
            phone_number |-> Null, date_joined |-> Today]

\* dict.get(key): the value, or None when the key is absent
Get(data, key) == IF key \in DOMAIN data THEN data[key] ELSE None

\* the truth value Python gives a str, a number or None
Truthy(v) ==
    CASE v.kind = "string" -> Len(v.val) > 0
      [] v.kind = "number" -> v.val # 0
      [] OTHER -> FALSE

\* Account.deserialize(data) does not raise DataValidationError: the required
\* keys are there and are strings, and a date, when given, is an ISO date
DeserializeOk(data) ==
    /\ Required \subseteq DOMAIN data
    /\ \A k \in Required : IsStr(data[k])
    /\ Get(data, "date_joined") # None =>
           IsStr(data["date_joined"]) /\ FromIsoFormatOk(data["date_joined"].val)

\* Account.deserialize(data): the object with its fields set from the dict;
\* keys other than the five attributes (an "id" among them) are ignored
Deserialize(account, data) ==
    [account EXCEPT
        !.name = data["name"],
        !.email = data["email"],
        !.address = data["address"],
        !.phone_number = Get(data, "phone_number"),
        !.date_joined = IF Get(data, "date_joined") # None
                        THEN FromIsoFormat(data["date_joined"].val)
                        ELSE Today]

\* Account.serialize(): every attribute, the date as an ISO string
Serialize(account) ==
    [id |-> Num(account.id), name |-> account.name, email |-> account.email,
     address |-> account.address, phone_number |-> account.phone_number,
     date_joined |-> Str(IsoFormat(account.date_joined))]

\* the identifier the store gives a new row
NewId(rows, serial) == serial

\* Account.create(): the row is inserted under a new identifier
Create(rows, account, serial) == Append(rows, [account EXCEPT !.id = NewId(rows, serial)])

\* Account.update(): the row of that identifier is overwritten in place
Update(rows, account) ==
    [i \in 1..Len(rows) |-> IF rows[i].id = account.id THEN account ELSE rows[i]]

\* Account.delete(): the row of that identifier is removed
Delete(rows, account) == SelectSeq(rows, LAMBDA r : r.id # account.id)

\* Account.all()
All(rows) == rows

\* Account.find(by_id): the row of that identifier, or None
Find(rows, by_id) ==
    IF \E i \in 1..Len(rows) : rows[i].id = by_id
    THEN rows[CHOOSE i \in 1..Len(rows) : rows[i].id = by_id]
    ELSE None

\* type(account) == Account
IsAccount(account) == account # None

(***************************************************************************)
(* Responses.                                                              *)
(***************************************************************************)
NoHeaders == [k \in {} |-> ""]

\* make_response(jsonify(data), status_code, headers)
MakeResponse(data, status_code, headers) ==
    [status |-> status_code, body |-> data, headers |-> headers]

\* the JSON error responses of service.common.error_handlers
ErrorResponse(status_code, error, message) ==
    MakeResponse(Obj([status |-> Num(status_code), error |-> Str(error),
                      message |-> Str(message)]),
                 status_code, NoHeaders)

\* an exception no handler is registered for leaves the view: Flask answers 500
Unhandled(exception, message) ==
    ErrorResponse(HTTP_500_INTERNAL_SERVER_ERROR, "Internal Server Error",
                  exception \o ": " \o message)

\* Faulty variant: a request without a Content-Type header passes.
CheckContentType_MissingPasses(headers, media_type) ==
    "Content-Type" \notin DOMAIN headers \/ headers["Content-Type"] = media_type

\* check_content_type(media_type): TRUE when the request passes, else abort(415)
CheckContentType(headers, media_type) ==
    LET content_type == IF "Content-Type" \in DOMAIN headers
                        THEN Str(headers["Content-Type"]) ELSE None
    IN  Truthy(content_type) /\ content_type.val = media_type

(***************************************************************************)
(* The requests the clients send.                                          *)
(***************************************************************************)
JsonHeaders == [k \in {"Content-Type"} |-> "application/json"]

Headers == {NoHeaders, JsonHeaders, [k \in {"Content-Type"} |-> "text/html"]}

\* the path identifiers tried: 0 is never assigned
PathIds == 0..MaxCreates

GoodDate == <<"2", "0", "2", "4", "-", "0", "2", "-", "2", "9">>

BadDate == <<"0", "2", "/", "2", "9", "/", "2", "0", "2", "4">>

Attributes == {"name", "email", "address", "phone_number", "date_joined"}

Keys == Attributes \cup {"id"}

FullBodies ==
    [name : {Str("Ada"), Str("Bob")},
     email : {Str("ada@x.io")},
     address : {Str("1 Infinite Loop")},
     phone_number : {Str("555-0100")},
     date_joined : {Str(GoodDate)},
     id : {Num(1)}]

\* every attribute; every attribute and an id; the required keys only; one
\* required key missing; nothing
KeySets ==
    {Attributes, Keys, {"name", "email", "address"}, {}}
        \cup {Attributes \ {k} : k \in {"name", "email", "address"}}

\* a name that is no string, a date that is no ISO date
MalformedBodies ==
    {[k \in Attributes |-> IF k = "name" THEN Num(42) ELSE f[k]] : f \in FullBodies}
        \cup {[k \in Attributes |-> IF k = "date_joined" THEN Str(BadDate) ELSE f[k]] :
                f \in {g \in FullBodies : g.name = Str("Ada")}}

Bodies == {[k \in S |-> f[k]] : f \in FullBodies, S \in KeySets} \cup MalformedBodies

Request(method, rule, view_args, headers, json) ==
    [method |-> method, rule |-> rule, view_args |-> view_args,
     headers |-> headers, json |-> json]

NoArgs == [k \in {} |-> 0]

NoBody == [k \in {} |-> Null]

(***************************************************************************)
(* Init: an empty table, no request answered yet.                          *)
(***************************************************************************)
Init ==
    /\ table = <<>>
    /\ next_id = 1
    /\ request = Request("", "", NoArgs, NoHeaders, NoBody)
    /\ response = MakeResponse(Null, 0, NoHeaders)
    /\ created = 0
    /\ deleted = {}

(***************************************************************************)
(* The views: what each handler answers and what it leaves in the table,   *)
(* given the table it finds.                                               *)
(***************************************************************************)
Result(rows, resp) == [table |-> rows, response |-> resp]

NotFoundMessage(account_id) == "Account ID " \o ToString(account_id) \o " not found"

\* Faulty variant: create() runs before deserialize(), so a body that fails
\* validation leaves a blank row behind.
CreateAccounts_CreateFirst(rows, serial, headers, json) ==
    IF ~CheckContentType(headers, "application/json")
    THEN Result(rows, ErrorResponse(HTTP_415_UNSUPPORTED_MEDIA_TYPE,
                                    "Unsupported media type",
                                    "Content-Type must be application/json"))
    ELSE IF ~DeserializeOk(json)
    THEN Result(Create(rows, Account, serial),
                ErrorResponse(HTTP_400_BAD_REQUEST, "Bad Request", "Invalid Account"))
    ELSE LET stored == Create(rows, Deserialize(Account, json), serial)
         IN  Result(stored, MakeResponse(Obj(Serialize(stored[Len(stored)])),
                                         HTTP_201_CREATED, [k \in {"Location"} |-> "/"]))

\* Faulty variant: serialize() runs before create(), so the body returned
\* does not carry the identifier the row was stored under.
CreateAccounts_SerializeFirst(rows, serial, headers, json) ==
    IF ~CheckContentType(headers, "application/json")
    THEN Result(rows, ErrorResponse(HTTP_415_UNSUPPORTED_MEDIA_TYPE,
                                    "Unsupported media type",
                                    "Content-Type must be application/json"))
    ELSE IF ~DeserializeOk(json)
    THEN Result(rows, ErrorResponse(HTTP_400_BAD_REQUEST, "Bad Request", "Invalid Account"))
    ELSE LET account == Deserialize(Account, json)
         IN  Result(Create(rows, account, serial),
                    MakeResponse(Obj(Serialize(account)), HTTP_201_CREATED,
                                 [k \in {"Location"} |-> "/"]))

\* create_accounts(): content type, deserialize, create, 201 with Location
CreateAccounts(rows, serial, headers, json) ==
    IF ~CheckContentType(headers, "application/json")
    THEN Result(rows, ErrorResponse(HTTP_415_UNSUPPORTED_MEDIA_TYPE,
                                    "Unsupported media type",
                                    "Content-Type must be application/json"))
    ELSE IF ~DeserializeOk(json)
    THEN Result(rows, ErrorResponse(HTTP_400_BAD_REQUEST, "Bad Request", "Invalid Account"))
    ELSE LET account == Deserialize(Account, json)
             stored == Create(rows, account, serial)
             message == Serialize(stored[Len(stored)])
         IN  Result(stored, MakeResponse(Obj(message), HTTP_201_CREATED,
                                         [k \in {"Location"} |-> "/"]))

\* Faulty variant: the loop returns after the first row.
ListAccounts_FirstOnly(rows) ==
    LET accounts == All(rows)
        list == [i \in 1..(IF Len(accounts) > 0 THEN 1 ELSE 0) |-> Obj(Serialize(accounts[i]))]
    IN  Result(rows, MakeResponse(Arr(list), HTTP_200_OK, NoHeaders))

\* list_accounts(): every row serialized, 200
ListAccounts(rows) ==
    LET accounts == All(rows)
        list == [i \in 1..Len(accounts) |-> Obj(Serialize(accounts[i]))]
    IN  Result(rows, MakeResponse(Arr(list), HTTP_200_OK, NoHeaders))

\* Faulty variant: the except branch keeps the 200 status.
ReadAccount_Always200(rows, account_id) ==
    LET account == Find(rows, account_id)
    IN  IF IsAccount(account)
        THEN Result(rows, MakeResponse(Obj(Serialize(account)), HTTP_200_OK, NoHeaders))
        ELSE Result(rows, MakeResponse(Obj([error |-> Str(NotFoundMessage(account_id))]),
                                       HTTP_200_OK, NoHeaders))

\* read_account(account_id): serialize() of None raises, and the except answers 404
ReadAccount(rows, account_id) ==
    LET account == Find(rows, account_id)
    IN  IF IsAccount(account)
        THEN Result(rows, MakeResponse(Obj(Serialize(account)), HTTP_200_OK, NoHeaders))
        ELSE Result(rows, MakeResponse(Obj([error |-> Str(NotFoundMessage(account_id))]),
                                       HTTP_404_NOT_FOUND, NoHeaders))

\* Faulty variant: update() is never called, so nothing is committed.
UpdateAccount_NoCommit(rows, account_id, json) ==
    LET account == Find(rows, account_id)
    IN  IF IsAccount(account)
        THEN IF ~DeserializeOk(json)
             THEN Result(rows, ErrorResponse(HTTP_400_BAD_REQUEST, "Bad Request",
                                             "Invalid Account"))
             ELSE Result(rows, MakeResponse(Obj(Serialize(Deserialize(account, json))),
                                            HTTP_200_OK, NoHeaders))
        ELSE Result(rows, Unhandled("ValueError", NotFoundMessage(account_id)))

\* Faulty variant: the row takes the id the body names.
UpdateAccount_TakesBodyId(rows, account_id, json) ==
    LET account == Find(rows, account_id)
    IN  IF IsAccount(account)
        THEN IF ~DeserializeOk(json)
             THEN Result(rows, ErrorResponse(HTTP_400_BAD_REQUEST, "Bad Request",
                                             "Invalid Account"))
             ELSE LET prepare_data ==
                          [Deserialize(account, json) EXCEPT
                              !.id = IF "id" \in DOMAIN json THEN json["id"].val ELSE @]
                  IN  Result([i \in 1..Len(rows) |->
                                 IF rows[i].id = account_id THEN prepare_data ELSE rows[i]],
                             MakeResponse(Obj(Serialize(prepare_data)), HTTP_200_OK,
                                          NoHeaders))
        ELSE Result(rows, Unhandled("ValueError", NotFoundMessage(account_id)))

\* update_account(account_id): the else branch sets status_code and raises
\* ValueError, so the 404 is never returned
UpdateAccount(rows, account_id, json) ==
    LET account == Find(rows, account_id)
    IN  IF IsAccount(account)
        THEN IF ~DeserializeOk(json)
             THEN Result(rows, ErrorResponse(HTTP_400_BAD_REQUEST, "Bad Request",
                                             "Invalid Account"))
             ELSE LET prepare_data == Deserialize(account, json)
                  IN  Result(Update(rows, prepare_data),
                             MakeResponse(Obj(Serialize(prepare_data)), HTTP_200_OK,
                                          NoHeaders))
        ELSE Result(rows, Unhandled("ValueError", NotFoundMessage(account_id)))

\* Faulty variant: delete() is never called, the answer is 204 all the same.
DeleteAccount_KeepsRow(rows, account_id) ==
    LET account == Find(rows, account_id)
    IN  IF IsAccount(account)
        THEN Result(rows, MakeResponse(Obj(NoBody), HTTP_204_NO_CONTENT, NoHeaders))
        ELSE Result(rows, Unhandled("ValueError", NotFoundMessage(account_id)))

\* delete_account(account_id): the else branch raises ValueError
DeleteAccount(rows, account_id) ==
    LET account == Find(rows, account_id)
    IN  IF IsAccount(account)
        THEN Result(Delete(rows, account),
                    MakeResponse(Obj(NoBody), HTTP_204_NO_CONTENT, NoHeaders))
        ELSE Result(rows, Unhandled("ValueError", NotFoundMessage(account_id)))

(***************************************************************************)
(* The handlers, one action per route.                                     *)
(***************************************************************************)
Ids(rows) == {rows[i].id : i \in 1..Len(rows)}

PathArgs(account_id) == [k \in {"account_id"} |-> account_id]

\* GET /health
health ==
    /\ request' = Request("GET", "/health", NoArgs, NoHeaders, NoBody)
    /\ response' = MakeResponse(Obj([status |-> Str("OK")]), HTTP_200_OK, NoHeaders)
    /\ UNCHANGED <<table, next_id, created, deleted>>

\* GET /
index ==
    /\ request' = Request("GET", "/", NoArgs, NoHeaders, NoBody)
    /\ response' = MakeResponse(Obj([name |-> Str("Account REST API Service"),
                                     version |-> Str("1.0")]),
                                HTTP_200_OK, NoHeaders)
    /\ UNCHANGED <<table, next_id, created, deleted>>

\* POST /accounts
create_accounts ==
    \E headers \in Headers, json \in Bodies :
        LET result == CreateAccounts(table, next_id, headers, json)
            inserted == Len(result.table) - Len(table)
        IN  /\ inserted > 0 => next_id <= MaxCreates
            /\ request' = Request("POST", "/accounts", NoArgs, headers, json)
            /\ response' = result.response
            /\ table' = result.table
            /\ next_id' = next_id + inserted
            /\ created' = created + inserted
            /\ UNCHANGED deleted

\* GET /accounts
list_accounts ==
    LET result == ListAccounts(table)
    IN  /\ request' = Request("GET", "/accounts", NoArgs, NoHeaders, NoBody)
        /\ response' = result.response
        /\ table' = result.table
        /\ UNCHANGED <<next_id, created, deleted>>

\* GET /accounts/<account_id>
read_account ==
    \E account_id \in PathIds :
        LET result == ReadAccount(table, account_id)
        IN  /\ request' = Request("GET", "/accounts/<account_id>", PathArgs(account_id),
                                  NoHeaders, NoBody)
            /\ response' = result.response
            /\ table' = result.table
            /\ UNCHANGED <<next_id, created, deleted>>

\* PUT /accounts/<account_id>
update_account ==
    \E account_id \in PathIds, json \in Bodies :
        LET result == UpdateAccount(table, account_id, json)
        IN  /\ request' = Request("PUT", "/accounts/<account_id>", PathArgs(account_id),
                                  JsonHeaders, json)
            /\ response' = result.response
            /\ table' = result.table
            /\ UNCHANGED <<next_id, created, deleted>>

\* DELETE /accounts/<account_id>
delete_account ==
    \E account_id \in PathIds :
        LET result == DeleteAccount(table, account_id)
        IN  /\ request' = Request("DELETE", "/accounts/<account_id>", PathArgs(account_id),
                                  NoHeaders, NoBody)
            /\ response' = result.response
            /\ table' = result.table
            /\ deleted' = deleted \cup (Ids(table) \ Ids(result.table))
            /\ UNCHANGED <<next_id, created>>

Next ==
    \/ health
    \/ index
    \/ create_accounts
    \/ list_accounts
    \/ read_account
    \/ update_account
    \/ delete_account

Spec == Init /\ [][Next]_vars

(***************************************************************************)
(* Vocabulary of the properties.                                           *)
(***************************************************************************)
IsPost(req) == req.method = "POST" /\ req.rule = "/accounts"

IsList(req) == req.method = "GET" /\ req.rule = "/accounts"

IsRead(req) == req.method = "GET" /\ req.rule = "/accounts/<account_id>"

IsPut(req) == req.method = "PUT" /\ req.rule = "/accounts/<account_id>"

IsDelete(req) == req.method = "DELETE" /\ req.rule = "/accounts/<account_id>"

PathId(req) == req.view_args["account_id"]

HasJsonType(req) ==
    "Content-Type" \in DOMAIN req.headers /\ req.headers["Content-Type"] = "application/json"

RowWithId(rows, id) == rows[CHOOSE i \in 1..Len(rows) : rows[i].id = id]

\* every row of `before` other than the one of `id` is in `after`, as it was
OthersKept(before, after, id) ==
    \A i \in 1..Len(before) :
        before[i].id # id =>
            \E j \in 1..Len(after) : after[j] = before[i]

\* the JSON object carries every attribute the body submitted, as submitted
Echoes(obj, json) == \A k \in Attributes \cap DOMAIN json : obj[k] = json[k]

\* the row holds what the body submitted; an optional attribute the body
\* leaves out is reset: no phone number, today's date
Overwritten(row, json) ==
    /\ row.name = json["name"]
    /\ row.email = json["email"]
    /\ row.address = json["address"]
    /\ row.phone_number = (IF "phone_number" \in DOMAIN json THEN json["phone_number"] ELSE Null)
    /\ Str(IsoFormat(row.date_joined)) =
           (IF "date_joined" \in DOMAIN json THEN json["date_joined"] ELSE Str(IsoFormat(Today)))

Unique(rows) == \A i, j \in 1..Len(rows) : rows[i].id = rows[j].id => i = j

IdsOf(rows) == [i \in 1..Len(rows) |-> rows[i].id]

(***************************************************************************)
(* Properties.                                                             *)
(***************************************************************************)

\* C1: DELETE /accounts/{id} for an id that is not in the store answers 404
\* (never 204, never an unhandled error / 500) and leaves the store unchanged.
\* The handler raises ValueError instead, so this is violated.
C1_DeleteAbsentAnswers404 ==
    [][(IsDelete(request') /\ PathId(request') \notin Ids(table)) =>
           (response'.status = HTTP_404_NOT_FOUND /\ table' = table)]_vars

\* C2: PUT /accounts/{id} for an id that is not in the store answers 404 (not
\* an unhandled error / 500) and the store is unchanged.  The handler raises
\* ValueError after setting status_code, so this is violated.
C2_UpdateAbsentAnswers404 ==
    [][(IsPut(request') /\ PathId(request') \notin Ids(table)) =>
           (response'.status = HTTP_404_NOT_FOUND /\ table' = table)]_vars

\* C3: DELETE /accounts/{id} for an id in the store answers 204 and removes
\* exactly that row, every other row unchanged; every later GET of an id
\* that was deleted answers 404.
C3_DeleteRemovesForGood ==
    [][/\ (IsDelete(request') /\ PathId(request') \in Ids(table)) =>
            /\ response'.status = HTTP_204_NO_CONTENT
            /\ Ids(table') = Ids(table) \ {PathId(request')}
            /\ Len(table') = Len(table) - 1
            /\ OthersKept(table, table', PathId(request'))
       /\ (IsRead(request') /\ PathId(request') \in deleted) =>
            response'.status = HTTP_404_NOT_FOUND]_vars

\* a GET of a deleted id was answered 404 while another row is still stored
C3_Witness ==
    /\ IsRead(request)
    /\ PathId(request) \in deleted
    /\ response.status = HTTP_404_NOT_FOUND
    /\ Len(table) > 0

\* C4: PUT /accounts/{id} for an id in the store with a valid body answers 200
\* with the updated record; the stored row keeps its id and position, its
\* other fields are overwritten from the body, no other row changes, and a
\* GET of an id in the store answers with the row as stored.
C4_UpdateOverwrites ==
    [][/\ (IsPut(request') /\ PathId(request') \in Ids(table) /\ DeserializeOk(request'.json)) =>
            LET id == PathId(request')
                row == RowWithId(table', id)
            IN  /\ response'.status = HTTP_200_OK
                /\ IdsOf(table') = IdsOf(table)
                /\ Overwritten(row, request'.json)
                /\ OthersKept(table, table', id)
                /\ response'.body = Obj(Serialize(row))
                /\ response'.body.val["id"] = Num(id)
                /\ Echoes(response'.body.val, request'.json)
       /\ (IsRead(request') /\ PathId(request') \in Ids(table)) =>
            response'.body = Obj(Serialize(RowWithId(table, PathId(request'))))]_vars

\* an update of one of two rows was answered 200, the body leaving the phone
\* number out
C4_Witness ==
    /\ IsPut(request)
    /\ response.status = HTTP_200_OK
    /\ Len(table) = 2
    /\ "phone_number" \notin DOMAIN request.json
    /\ RowWithId(table, PathId(request)).name = request.json["name"]
    /\ \E i \in 1..Len(table) : table[i].name # request.json["name"]

\* C5: POST /accounts whose Content-Type is absent or is not application/json
\* answers 415 whether the body is valid or not, and nothing is persisted.
C5_WrongContentTypeIs415 ==
    [][(IsPost(request') /\ ~HasJsonType(request')) =>
           /\ response'.status = HTTP_415_UNSUPPORTED_MEDIA_TYPE
           /\ table' = table
           /\ next_id' = next_id]_vars

\* a valid body sent without a Content-Type was answered 415
C5_Witness ==
    /\ IsPost(request)
    /\ "Content-Type" \notin DOMAIN request.headers
    /\ DeserializeOk(request.json)
    /\ response.status = HTTP_415_UNSUPPORTED_MEDIA_TYPE

\* C6: POST /accounts with Content-Type application/json and a body missing
\* name or email answers 400 and the store is unchanged.
C6_MissingFieldIs400 ==
    [][(/\ IsPost(request')
        /\ HasJsonType(request')
        /\ ~({"name", "email"} \subseteq DOMAIN request'.json)) =>
           /\ response'.status = HTTP_400_BAD_REQUEST
           /\ table' = table
           /\ next_id' = next_id]_vars

\* a body with a name and no email was answered 400 while a row is stored
C6_Witness ==
    /\ IsPost(request)
    /\ HasJsonType(request)
    /\ "name" \in DOMAIN request.json
    /\ "email" \notin DOMAIN request.json
    /\ response.status = HTTP_400_BAD_REQUEST
    /\ Len(table) > 0

\* C7: POST /accounts with Content-Type application/json and a valid body
\* answers 201 with a Location header and a body carrying a server-assigned
\* id (one no row has or had) and every submitted attribute unchanged; the
\* store gains exactly one row, the one returned.
C7_CreateEchoes ==
    [][(IsPost(request') /\ HasJsonType(request') /\ DeserializeOk(request'.json)) =>
           /\ response'.status = HTTP_201_CREATED
           /\ "Location" \in DOMAIN response'.headers
           /\ response'.body.kind = "object"
           /\ response'.body.val["id"].kind = "number"
           /\ response'.body.val["id"].val \notin (Ids(table) \cup deleted)
           /\ Echoes(response'.body.val, request'.json)
           /\ Len(table') = Len(table) + 1
           /\ SubSeq(table', 1, Len(table)) = table
           /\ Serialize(table'[Len(table')]) = response'.body.val]_vars

\* a create naming an id that is already stored was answered 201 with another id
C7_Witness ==
    /\ IsPost(request)
    /\ response.status = HTTP_201_CREATED
    /\ "id" \in DOMAIN request.json
    /\ response.body.val["id"] # request.json["id"]
    /\ response.body.val["date_joined"] = Str(GoodDate)
    /\ Len(table) = 2

\* C8: GET /accounts/{id} answers 200 with the stored record when the id is
\* in the store and 404 with an error body when it is not; the store is
\* unchanged either way.
C8_ReadFoundOrNot ==
    [][IsRead(request') =>
           LET id == PathId(request')
           IN  /\ id \in Ids(table) =>
                    /\ response'.status = HTTP_200_OK
                    /\ response'.body = Obj(Serialize(RowWithId(table, id)))
               /\ id \notin Ids(table) =>
                    /\ response'.status = HTTP_404_NOT_FOUND
                    /\ "error" \in DOMAIN response'.body.val
               /\ table' = table
               /\ next_id' = next_id]_vars

\* a GET of an id never created was answered 404 while rows are stored
C8_Witness ==
    /\ IsRead(request)
    /\ PathId(request) \notin (Ids(table) \cup deleted)
    /\ response.status = HTTP_404_NOT_FOUND
    /\ "error" \in DOMAIN response.body.val
    /\ Len(table) > 0

\* C9: GET /accounts answers 200 with exactly one serialized entry per row in
\* the store, as many as successful creates minus successful deletes.
C9_ListCountsRows ==
    IsList(request) =>
        /\ response.status = HTTP_200_OK
        /\ response.body.kind = "array"
        /\ Len(response.body.val) = Len(table)
        /\ \A i \in 1..Len(table) : response.body.val[i] = Obj(Serialize(table[i]))
        /\ Len(response.body.val) = created - Cardinality(deleted)

\* a listing after creates and a delete shows the one row left
C9_Witness ==
    /\ IsList(request)
    /\ created > 1
    /\ deleted # {}
    /\ Len(response.body.val) = 1

\* C10: no two rows of the store have the same id, and no request changes
\* the id of a row: the ids stay as they are, or one goes, or a new one,
\* never used before, is appended.
C10_IdsUniqueAndFixed ==
    [][/\ Unique(table')
       /\ \/ IdsOf(table') = IdsOf(table)
          \/ \E id \in Ids(table) :
                IdsOf(table') = SelectSeq(IdsOf(table), LAMBDA x : x # id)
          \/ /\ Len(table') = Len(table) + 1
             /\ SubSeq(IdsOf(table'), 1, Len(table)) = IdsOf(table)
             /\ table'[Len(table')].id \notin (Ids(table) \cup deleted)]_vars

\* an update whose body names the id of another row was answered 200
C10_Witness ==
    /\ IsPut(request)
    /\ response.status = HTTP_200_OK
    /\ "id" \in DOMAIN request.json
    /\ request.json["id"].val # PathId(request)
    /\ request.json["id"].val \in Ids(table)

====
